---- MODULE Spec2Model ----
(***************************************************************************)
(* BayesForecaster (src/model/forecaster_en.py, src/model/forecaster.py):  *)
(* the likelihood-ratio estimator fit_likelihoods over the three tables    *)
(* loaded by the constructor.                                              *)
(*                                                                         *)
(* Tables are sequences of rows (records).  Identifiers are small          *)
(* integers so that the sorted order of groupby can be computed.  Scores   *)
(* and the threshold are in tenths (0.7 is 7).  Floating point numbers     *)
(* that the estimator computes are exact fractions [num, den].             *)
(***************************************************************************)
EXTENDS Integers, Sequences, FiniteSets, TLC

\* ------------------------------------------------------------------ bounds
\* total number of rows over the three input tables
MaxRows == 4

\* ------------------------------------------------------ program constants
success_threshold == 7
EpsDen == 1000000000
NaN == -1

\* ---------------------------------------------------------- input domains
\* catalog rows: indicators 1 and 2 described, and a row of indicator 1 whose
\* description is missing
IndicatorRows ==
    [indicator_id : {1, 2}, description : {"txt"}]
        \cup {[indicator_id |-> 1, description |-> "NaN"]}

\* events 1 and 2 with a score below (0.6) or equal to (0.7) the threshold, and
\* event 2 with a score above it (0.9)
EventRows ==
    [event_id : {1, 2}, target_score : {6, 7}]
        \cup {[event_id |-> 2, target_score |-> 9]}

\* observations of indicator 1 with a negative, zero or positive severity and
\* of indicator 2 with a positive one
ObsRows ==
    [event_id : {1, 2}, indicator_id : {1}, severity : {-1, 0, 1}]
        \cup [event_id : {1, 2}, indicator_id : {2}, severity : {1}]

\* laplace_alpha: no smoothing (0.0), 0.5 and the default (1.0)
Alphas == {[num |-> 0, den |-> 1], [num |-> 1, den |-> 2], [num |-> 1, den |-> 1]}

SeqUpTo(S, n) == UNION {[1..k -> S] : k \in 0..n}

None == <<[none |-> TRUE]>>
NoFile == <<[no_file |-> TRUE]>>

VARIABLES indicators_df, hist_ind_df, hist_events_df, laplace_alpha,
          ratios_df, csv_file, pc, labels_df, full_rows, result_rows

vars == <<indicators_df, hist_ind_df, hist_events_df, laplace_alpha,
          ratios_df, csv_file, pc, labels_df, full_rows, result_rows>>

\* ------------------------------------------------------------- fractions
Half == [num |-> 1, den |-> 2]
Eps == [num |-> 1, den |-> EpsDen]

RatEq(p, q) == p.num * q.den = q.num * p.den

\* eps > p, for a fraction with num >= 0 and den >= 1, without forming num * 10^9
EpsGreater(p) == p.num <= (p.den - 1) \div EpsDen

\* max(p, eps) of Python: the first argument unless the second is greater
MaxEps(p) == IF EpsGreater(p) THEN Eps ELSE p

\* ------------------------------------------------------ sequence helpers
RECURSIVE Flatten(_)
Flatten(ss) == IF ss = <<>> THEN <<>> ELSE Head(ss) \o Flatten(Tail(ss))

Range(s) == {s[i] : i \in DOMAIN s}

\* Series.unique(): the distinct values in order of first appearance
RECURSIVE Unique(_)
Unique(s) ==
    IF s = <<>> THEN <<>>
    ELSE LET front == Unique(SubSeq(s, 1, Len(s) - 1))
             last == s[Len(s)]
         IN IF last \in Range(front) THEN front ELSE Append(front, last)

Column(df, c) == [i \in DOMAIN df |-> df[i][c]]

RECURSIVE SumActive(_)
SumActive(df) == IF df = <<>> THEN 0 ELSE Head(df).active + SumActive(Tail(df))

\* --------------------------------------------------------------- labelling
\* mutant: a score equal to the threshold is not a success
LabelEventsStrict(events_df) ==
    [i \in DOMAIN events_df |->
        [event_id |-> events_df[i].event_id,
         is_success |-> IF events_df[i].target_score > success_threshold THEN 1 ELSE 0]]

LabelEventsSuccess(events_df) ==
    [i \in DOMAIN events_df |->
        [event_id |-> events_df[i].event_id,
         is_success |-> IF events_df[i].target_score >= success_threshold THEN 1 ELSE 0]]

\* --------------------------------------------------------------- collapsing
Active(severity) == IF severity > 0 THEN 1 ELSE 0

HistActive(obs_df) ==
    [i \in DOMAIN obs_df |->
        [event_id |-> obs_df[i].event_id, indicator_id |-> obs_df[i].indicator_id,
         active |-> Active(obs_df[i].severity)]]

KeyLess(a, b) == a[1] < b[1] \/ (a[1] = b[1] /\ a[2] < b[2])

RECURSIVE SortKeys(_)
SortKeys(S) ==
    IF S = {} THEN <<>>
    ELSE LET m == CHOOSE a \in S : \A b \in S \ {a} : KeyLess(a, b)
         IN <<m>> \o SortKeys(S \ {m})

\* mutant: the last row of the pair decides instead of the maximum
GroupLast(hist_active, key) ==
    LET rows == {j \in DOMAIN hist_active :
                    <<hist_active[j].event_id, hist_active[j].indicator_id>> = key}
    IN hist_active[CHOOSE j \in rows : \A j2 \in rows : j2 <= j].active

\* mutant: the rows are grouped by indicator_id alone
GroupMaxByIndicator(hist_active, key) ==
    LET vals == {hist_active[i].active : i \in
                    {j \in DOMAIN hist_active : hist_active[j].indicator_id = key[2]}}
    IN CHOOSE v \in vals : \A w \in vals : w <= v

GroupMax(hist_active, key) ==
    LET vals == {hist_active[i].active : i \in
                    {j \in DOMAIN hist_active :
                        <<hist_active[j].event_id, hist_active[j].indicator_id>> = key}}
    IN CHOOSE v \in vals : \A w \in vals : w <= v

\* groupby(["event_id", "indicator_id"])["active"].max().reset_index()
PivotDf(hist_active) ==
    LET keys == SortKeys({<<hist_active[i].event_id, hist_active[i].indicator_id>> :
                            i \in DOMAIN hist_active})
    IN [i \in DOMAIN keys |->
          [event_id |-> keys[i][1], indicator_id |-> keys[i][2],
           active |-> GroupMax(hist_active, keys[i])]]

\* pivot_df.merge(labels_df, on="event_id", how="left")
MergeLabels(pivot, labels) ==
    Flatten([i \in DOMAIN pivot |->
        LET SameEvent(l) == l.event_id = pivot[i].event_id
            matches == SelectSeq(labels, SameEvent)
        IN IF matches = <<>>
           THEN <<[event_id |-> pivot[i].event_id, indicator_id |-> pivot[i].indicator_id,
                   active |-> pivot[i].active, is_success |-> NaN]>>
           ELSE [j \in DOMAIN matches |->
                   [event_id |-> pivot[i].event_id, indicator_id |-> pivot[i].indicator_id,
                    active |-> pivot[i].active, is_success |-> matches[j].is_success]]])

\* --------------------------------------------------------------- expansion
\* dict comprehensions: a later row with the same key replaces the earlier one
RECURSIVE ActLookup(_)
ActLookup(pivot) ==
    IF pivot = <<>> THEN <<>>
    ELSE LET r == pivot[Len(pivot)]
         IN (<<r.event_id, r.indicator_id>> :> r.active)
              @@ ActLookup(SubSeq(pivot, 1, Len(pivot) - 1))

\* mutant: the first row of an event_id decides its label
RECURSIVE SuccessLookupFirst(_)
SuccessLookupFirst(labels) ==
    IF labels = <<>> THEN <<>>
    ELSE (Head(labels).event_id :> Head(labels).is_success) @@ SuccessLookupFirst(Tail(labels))

RECURSIVE SuccessLookup(_)
SuccessLookup(labels) ==
    IF labels = <<>> THEN <<>>
    ELSE LET r == labels[Len(labels)]
         IN (r.event_id :> r.is_success) @@ SuccessLookup(SubSeq(labels, 1, Len(labels) - 1))

DictGet(d, k, default) == IF k \in DOMAIN d THEN d[k] ELSE default

Indicators(ind_df) == Unique(Column(ind_df, "indicator_id"))

\* mutant: the event_id column is taken without unique()
EventsWithRepeats(events_df) == Column(events_df, "event_id")

Events(events_df) == Unique(Column(events_df, "event_id"))

FullRows(events, indicators, act_lookup, success_lookup) ==
    Flatten([e \in DOMAIN events |->
        [i \in DOMAIN indicators |->
            [event_id |-> events[e], indicator_id |-> indicators[i],
             active |-> DictGet(act_lookup, <<events[e], indicators[i]>>, 0),
             is_success |-> success_lookup[events[e]]]]])

\* --------------------------------------------------------------- estimation
\* mutant: alpha is added once to the denominator
SmoothedPSingleAlpha(count_active, count_total, alpha) ==
    IF count_total = 0 THEN Half
    ELSE [num |-> count_active * alpha.den + alpha.num,
          den |-> count_total * alpha.den + alpha.num]

\* mutant: the numerator is not smoothed
SmoothedPRawNumerator(count_active, count_total, alpha) ==
    IF count_total = 0 THEN Half
    ELSE [num |-> count_active * alpha.den,
          den |-> count_total * alpha.den + 2 * alpha.num]

SmoothedP(count_active, count_total, alpha) ==
    IF count_total = 0 THEN Half
    ELSE [num |-> count_active * alpha.den + alpha.num,
          den |-> count_total * alpha.den + 2 * alpha.num]

\* k_ratio is kept as the quotient of two fractions
KRatio(p_given_H, p_given_notH) == [num |-> p_given_H, den |-> MaxEps(p_given_notH)]

ResultRow(full_df, ind, alpha) ==
    LET IsSucc(r) == r.is_success = 1
        IsFail(r) == r.is_success = 0
        OfInd(r) == r.indicator_id = ind
        succ_slice == SelectSeq(SelectSeq(full_df, IsSucc), OfInd)
        fail_slice == SelectSeq(SelectSeq(full_df, IsFail), OfInd)
        p_given_H == SmoothedP(SumActive(succ_slice), Len(succ_slice), alpha)
        p_given_notH == SmoothedP(SumActive(fail_slice), Len(fail_slice), alpha)
    IN [indicator_id |-> ind, p_given_H |-> p_given_H, p_given_notH |-> p_given_notH,
        k_ratio |-> KRatio(p_given_H, p_given_notH)]

ResultRows(full_df, indicators, alpha) ==
    [i \in DOMAIN indicators |-> ResultRow(full_df, indicators[i], alpha)]

\* ratios_df.merge(indicators_df[["indicator_id", "description"]], how="left")
MergeDescription(results, ind_df) ==
    Flatten([i \in DOMAIN results |->
        LET SameInd(c) == c.indicator_id = results[i].indicator_id
            matches == SelectSeq(ind_df, SameInd)
        IN IF matches = <<>>
           THEN <<[indicator_id |-> results[i].indicator_id,
                   p_given_H |-> results[i].p_given_H,
                   p_given_notH |-> results[i].p_given_notH,
                   k_ratio |-> results[i].k_ratio, description |-> "NaN"]>>
           ELSE [j \in DOMAIN matches |->
                   [indicator_id |-> results[i].indicator_id,
                    p_given_H |-> results[i].p_given_H,
                    p_given_notH |-> results[i].p_given_notH,
                    k_ratio |-> results[i].k_ratio,
                    description |-> matches[j].description]]])

\* ------------------------------------------------------------------ state
Init ==
    /\ indicators_df \in SeqUpTo(IndicatorRows, MaxRows)
    /\ hist_events_df \in SeqUpTo(EventRows, MaxRows - Len(indicators_df))
    /\ hist_ind_df \in SeqUpTo(ObsRows, MaxRows - Len(indicators_df) - Len(hist_events_df))
    /\ laplace_alpha \in Alphas
    /\ ratios_df = None
    /\ csv_file = NoFile
    /\ pc = "ready"
    /\ labels_df = None
    /\ full_rows = None
    /\ result_rows = None

inputs == <<indicators_df, hist_ind_df, hist_events_df, laplace_alpha>>

\* fit_likelihoods, step 1: labels_df = self._label_events_success()
Label ==
    /\ pc = "ready"
    /\ labels_df' = LabelEventsSuccess(hist_events_df)
    /\ pc' = "labelled"
    /\ UNCHANGED <<inputs, ratios_df, csv_file, full_rows, result_rows>>

\* fit_likelihoods, steps 2-5: collapse, join, lookups, dense matrix
Expand ==
    /\ pc = "labelled"
    /\ LET pivot_df == MergeLabels(PivotDf(HistActive(hist_ind_df)), labels_df)
       IN full_rows' = FullRows(Events(hist_events_df), Indicators(indicators_df),
                                ActLookup(pivot_df), SuccessLookup(labels_df))
    /\ pc' = "expanded"
    /\ UNCHANGED <<inputs, ratios_df, csv_file, labels_df, result_rows>>

\* mutant: the output file is created before the estimate starts
EstimateKeyErrorAfterOpen ==
    /\ pc = "expanded"
    /\ full_rows = <<>>
    /\ pc' = "failed"
    /\ csv_file' = <<>>
    /\ UNCHANGED <<indicators_df, hist_ind_df, hist_events_df, laplace_alpha,
                   ratios_df, labels_df, full_rows, result_rows>>

\* full_df = pd.DataFrame(full_rows) has no column at all when full_rows is
\* empty, and full_df["is_success"] raises KeyError
EstimateKeyError ==
    /\ pc = "expanded"
    /\ full_rows = <<>>
    /\ pc' = "failed"
    /\ UNCHANGED <<inputs, ratios_df, csv_file, labels_df, full_rows, result_rows>>

Estimate ==
    /\ pc = "expanded"
    /\ full_rows # <<>>
    /\ result_rows' = ResultRows(full_rows, Indicators(indicators_df), laplace_alpha)
    /\ pc' = "estimated"
    /\ UNCHANGED <<inputs, ratios_df, csv_file, labels_df, full_rows>>

\* merge of the descriptions, self.ratios_df = ratios_df, ratios_df.to_csv(...)
Save ==
    /\ pc = "estimated"
    /\ ratios_df' = MergeDescription(result_rows, indicators_df)
    /\ csv_file' = ratios_df'
    /\ pc' = "done"
    /\ UNCHANGED <<inputs, labels_df, full_rows, result_rows>>

\* fit_likelihoods is called again on the same object
Refit ==
    /\ pc \in {"done", "failed"}
    /\ pc' = "ready"
    /\ labels_df' = None
    /\ full_rows' = None
    /\ result_rows' = None
    /\ UNCHANGED <<inputs, ratios_df, csv_file>>

Next ==
    \/ Label
    \/ Expand
    \/ EstimateKeyError
    \/ Estimate
    \/ Save
    \/ Refit

Spec == Init /\ [][Next]_vars


\* ============================================================ properties
\* what the claims speak of, stated over the input tables and the dense cells

EventIdSet == {hist_events_df[i].event_id : i \in DOMAIN hist_events_df}

IndicatorIdSet == {indicators_df[i].indicator_id : i \in DOMAIN indicators_df}

\* the run has built the dense matrix (it is kept until the next call)
Expanded == pc \in {"expanded", "estimated", "done", "failed"}

\* the run has estimated every indicator
Estimated == pc \in {"estimated", "done"}

CellsOf(ind, label) ==
    {k \in DOMAIN full_rows :
        full_rows[k].indicator_id = ind /\ full_rows[k].is_success = label}

ActiveCellsOf(ind, label) == {k \in CellsOf(ind, label) : full_rows[k].active = 1}

\* (a + alpha) / (n + 2 alpha) with alpha = laplace_alpha.num / laplace_alpha.den
Smoothed(a, n) ==
    [num |-> a * laplace_alpha.den + laplace_alpha.num,
     den |-> n * laplace_alpha.den + 2 * laplace_alpha.num]

Expected(ind, label) ==
    IF CellsOf(ind, label) = {} THEN Half
    ELSE Smoothed(Cardinality(ActiveCellsOf(ind, label)), Cardinality(CellsOf(ind, label)))

NoSuccessfulEvent ==
    \A i \in DOMAIN hist_events_df : hist_events_df[i].target_score < success_threshold

\* C1: every result row carries p_given_H = 0.5 if the indicator has no dense
\* cell of a successful event, else (a_succ + alpha) / (n_succ + 2 alpha); the
\* same for p_given_notH over the failed events; and k_ratio = p_given_H /
\* max(p_given_notH, 1e-9).  With no successful event every p_given_H is 0.5.
\* (A fraction of the model has a denominator below 10^9, so it is below 1e-9
\* exactly when its numerator is 0.)
C1_Likelihoods ==
    Estimated =>
        \A r \in DOMAIN result_rows :
            LET row == result_rows[r]
            IN /\ RatEq(row.p_given_H, Expected(row.indicator_id, 1))
               /\ RatEq(row.p_given_notH, Expected(row.indicator_id, 0))
               /\ CellsOf(row.indicator_id, 1) = {} => row.p_given_H = Half
               /\ CellsOf(row.indicator_id, 0) = {} => row.p_given_notH = Half
               /\ RatEq(row.k_ratio.num, row.p_given_H)
               /\ IF row.p_given_notH.num = 0
                  THEN row.k_ratio.den = Eps
                  ELSE RatEq(row.k_ratio.den, row.p_given_notH)
               /\ NoSuccessfulEvent => row.p_given_H = Half

\* a finished run with successful and failed events, an indicator active in a
\* successful one, and a positive alpha
C1_Witness ==
    /\ pc = "done"
    /\ laplace_alpha.num > 0
    /\ \E r \in DOMAIN result_rows :
          /\ ActiveCellsOf(result_rows[r].indicator_id, 1) # {}
          /\ CellsOf(result_rows[r].indicator_id, 0) # {}
          /\ ~RatEq(result_rows[r].p_given_H, result_rows[r].p_given_notH)

\* C2: the dense matrix holds exactly |events| x |indicators| cells: every pair
\* of an event_id of the events table and an indicator_id of the catalog
\* appears exactly once, whatever the observations table contains.
C2_DenseMatrix ==
    Expanded =>
        /\ Len(full_rows) = Cardinality(EventIdSet) * Cardinality(IndicatorIdSet)
        /\ \A k \in DOMAIN full_rows :
              /\ full_rows[k].event_id \in EventIdSet
              /\ full_rows[k].indicator_id \in IndicatorIdSet
        /\ \A e \in EventIdSet, i \in IndicatorIdSet :
              Cardinality({k \in DOMAIN full_rows :
                  full_rows[k].event_id = e /\ full_rows[k].indicator_id = i}) = 1

\* a dense matrix with a cell whose pair was never observed, built while the
\* observations table holds a row whose pair is not in the matrix
C2_Witness ==
    /\ pc = "expanded"
    /\ Len(full_rows) >= 2
    /\ \E k \in DOMAIN full_rows : \A j \in DOMAIN hist_ind_df :
          <<hist_ind_df[j].event_id, hist_ind_df[j].indicator_id>>
              # <<full_rows[k].event_id, full_rows[k].indicator_id>>
    /\ \E j \in DOMAIN hist_ind_df :
          hist_ind_df[j].event_id \notin EventIdSet
              \/ hist_ind_df[j].indicator_id \notin IndicatorIdSet

ObsOf(e, i) ==
    {j \in DOMAIN hist_ind_df :
        hist_ind_df[j].event_id = e /\ hist_ind_df[j].indicator_id = i}

\* C3: a dense cell is active iff the observations table has at least one row
\* for exactly its pair with severity > 0; rows with severity <= 0, a pair
\* without rows, and the number and order of the rows change nothing.
C3_ActiveIffPositive ==
    Expanded =>
        \A k \in DOMAIN full_rows :
            /\ full_rows[k].active \in {0, 1}
            /\ full_rows[k].active = 1 <=>
                  \E j \in ObsOf(full_rows[k].event_id, full_rows[k].indicator_id) :
                      hist_ind_df[j].severity > 0

\* an active cell whose pair has a positive row followed by a row with
\* severity <= 0
C3_Witness ==
    /\ Expanded
    /\ \E k \in DOMAIN full_rows :
          /\ full_rows[k].active = 1
          /\ \E j1, j2 \in ObsOf(full_rows[k].event_id, full_rows[k].indicator_id) :
                /\ j1 < j2
                /\ hist_ind_df[j1].severity > 0
                /\ hist_ind_df[j2].severity <= 0

RowsOfEvent(e) == {j \in DOMAIN hist_events_df : hist_events_df[j].event_id = e}

\* the score of the event: that of its row in the events table (of the last one
\* when the table repeats the event_id)
TargetScore(e) ==
    hist_events_df[CHOOSE j \in RowsOfEvent(e) : \A j2 \in RowsOfEvent(e) : j2 <= j].target_score

\* C8: every dense cell of event e carries is_success = 1 iff target_score(e) >=
\* success_threshold (a score equal to the threshold is a success); the cells
\* of one event carry one label, whatever the observations table contains.
C8_SuccessLabel ==
    Expanded =>
        \A k \in DOMAIN full_rows :
            /\ full_rows[k].is_success \in {0, 1}
            /\ full_rows[k].is_success = 1 <=>
                  TargetScore(full_rows[k].event_id) >= success_threshold

\* a successful cell of an event whose score equals the threshold, beside a
\* failed cell
C8_Witness ==
    /\ Expanded
    /\ \E k \in DOMAIN full_rows :
          /\ full_rows[k].is_success = 1
          /\ \A j \in RowsOfEvent(full_rows[k].event_id) :
                hist_events_df[j].target_score = success_threshold
    /\ \E k \in DOMAIN full_rows : full_rows[k].is_success = 0

\* p lies in (0,1], for a fraction with a positive denominator
InUnitInterval(p) == p.den > 0 /\ p.num > 0 /\ p.num <= p.den

\* C4 as claimed: for any laplace_alpha the constructor accepts, every
\* p_given_H and p_given_notH of the result lies in (0,1].
C4_ProbabilitiesAnyAlpha ==
    Estimated =>
        \A r \in DOMAIN result_rows :
            /\ InUnitInterval(result_rows[r].p_given_H)
            /\ InUnitInterval(result_rows[r].p_given_notH)

\* C4 as amended: for any laplace_alpha > 0, every p_given_H and p_given_notH
\* of the result lies in (0,1].
C4_ProbabilitiesPositiveAlpha ==
    (Estimated /\ laplace_alpha.num > 0) =>
        \A r \in DOMAIN result_rows :
            /\ InUnitInterval(result_rows[r].p_given_H)
            /\ InUnitInterval(result_rows[r].p_given_notH)

\* a result with alpha > 0 where an indicator is never active in the failed
\* events and always active in the successful ones
C4_Witness ==
    /\ Estimated
    /\ laplace_alpha.num > 0
    /\ \E r \in DOMAIN result_rows :
          LET ind == result_rows[r].indicator_id
          IN /\ CellsOf(ind, 0) # {}
             /\ ActiveCellsOf(ind, 0) = {}
             /\ CellsOf(ind, 1) # {}
             /\ ActiveCellsOf(ind, 1) = CellsOf(ind, 1)

DuplicateEventId == \E e \in EventIdSet : Cardinality(RowsOfEvent(e)) >= 2

IsOrphan(row) == row.event_id \notin EventIdSet

OrphanObservation == \E j \in DOMAIN hist_ind_df : IsOrphan(hist_ind_df[j])

\* the dense matrix of the run over the observations table obs
DenseOf(obs) ==
    LET labels == LabelEventsSuccess(hist_events_df)
    IN FullRows(Events(hist_events_df), Indicators(indicators_df),
                ActLookup(MergeLabels(PivotDf(HistActive(obs)), labels)),
                SuccessLookup(labels))

\* C6 as claimed: with an observation row whose event_id is not in the events
\* table the run aborts with an error instead of returning a result table.
C6_OrphanObservationFatal ==
    OrphanObservation => pc \notin {"estimated", "done"} /\ ratios_df = None

\* C6 as amended: an observation row whose event_id is not in the events table
\* raises no error and is ignored: the dense matrix and the result table are
\* those of the run without such rows, and the run fails only when the dense
\* matrix is empty.
C6_OrphanObservationIgnored ==
    OrphanObservation =>
        LET NotOrphan(row) == ~IsOrphan(row)
            dense == DenseOf(SelectSeq(hist_ind_df, NotOrphan))
            results == ResultRows(dense, Indicators(indicators_df), laplace_alpha)
        IN /\ Expanded => full_rows = dense
           /\ Estimated => result_rows = results
           /\ pc = "done" => ratios_df = MergeDescription(results, indicators_df)
           /\ pc = "failed" => full_rows = <<>>

\* a finished run whose observations table holds a positive row of an event
\* the events table lacks, for an indicator of the catalog
C6_Witness ==
    /\ pc = "done"
    /\ \E j \in DOMAIN hist_ind_df :
          /\ IsOrphan(hist_ind_df[j])
          /\ hist_ind_df[j].severity > 0
          /\ hist_ind_df[j].indicator_id \in IndicatorIdSet

\* C7: an indicator without any dense cell (n_succ = 0 and n_fail = 0, as when
\* the events table has no rows) never makes the run raise: the run completes
\* and the indicator's row is p_given_H = 0.5, p_given_notH = 0.5, k_ratio = 1.
C7_NoCellsNeutral ==
    \A ind \in IndicatorIdSet :
        (Expanded /\ CellsOf(ind, 0) = {} /\ CellsOf(ind, 1) = {}) =>
            /\ pc # "failed"
            /\ Estimated =>
                  \A r \in DOMAIN result_rows :
                      result_rows[r].indicator_id = ind =>
                          /\ result_rows[r].p_given_H = Half
                          /\ result_rows[r].p_given_notH = Half
                          /\ RatEq(result_rows[r].k_ratio.num, result_rows[r].k_ratio.den)

\* C9: the result table has exactly one row per indicator of the catalog, in
\* the catalog's order; attaching the description drops no row and adds none.
C9_OneRowPerIndicator ==
    pc = "done" =>
        /\ Len(ratios_df) = Len(result_rows)
        /\ Column(ratios_df, "indicator_id") = Indicators(indicators_df)

\* C10: self.ratios_df and the output file change only in the step that ends a
\* run whose labelling, expansion and estimate of every indicator have
\* completed; every other step, an abort included, leaves both as they were.
C10_OutputOnlyAtEnd ==
    [][IF ratios_df' # ratios_df \/ csv_file' # csv_file \/ pc' = "done"
       THEN /\ pc = "estimated"
            /\ labels_df # None
            /\ full_rows # None
            /\ Column(result_rows, "indicator_id") = Indicators(indicators_df)
            /\ csv_file' = ratios_df'
       ELSE ratios_df' = ratios_df /\ csv_file' = csv_file]_vars

\* an aborted run: labelling and expansion done, nothing assigned or written
C10_Witness ==
    /\ pc = "failed"
    /\ labels_df # None
    /\ full_rows # None
    /\ result_rows = None
    /\ ratios_df = None
    /\ csv_file = NoFile
====
